---- MODULE Spec2Model ----
(***************************************************************************)
(* A model of the gosh shell core: the REPL driver and pipeline entry      *)
(* (src/src/sh.c), the type-directed display engine (src/display.c) and    *)
(* the tree-walking evaluator (src/runner.c).                              *)
(*                                                                         *)
(* Strings are sequences of one-character strings; a C pointer into a      *)
(* string is a 0-based offset, the terminating NUL sitting at offset       *)
(* Len(s).  The lexer, parser, analyzer, type system, value library,       *)
(* filesystem and terminal are collaborators outside src/: their results   *)
(* are inputs drawn from bounded sets.                                     *)
(***************************************************************************)
EXTENDS Integers, Sequences, FiniteSets, TLC

VARIABLES
    \* REPL driver and pipeline
    session,          \* "running" | "exited" | "crashed"
    pc,               \* the function the REPL iteration is in
    input,            \* what readline returned for this iteration
    internalerrors,   \* the process-wide internal error counter
    workingDir,       \* compiler->dirs.workingDir
    last,             \* what this iteration did so far
    \* display engine, one call of each printer
    dispIn, dispOut,
    gridIn, gridOut,
    sizeIn, sizeOut,
    listIn, listOut,
    \* evaluator
    ast, astAtEntry, stack, events, returned

replVars == <<session, pc, input, internalerrors, workingDir, last>>
dispVars == <<dispIn, dispOut>>
gridVars == <<gridIn, gridOut>>
sizeVars == <<sizeIn, sizeOut>>
listVars == <<listIn, listOut>>
runVars  == <<ast, astAtEntry, stack, events, returned>>
vars == <<replVars, dispVars, gridVars, sizeVars, listVars, runVars>>

(***************************************************************************)
(* Bounds of the model                                                     *)
(***************************************************************************)
MaxTail == 2            \* characters typed after the command word
MaxErrors == 1          \* diagnostics one compile phase reports
MaxInternalErrors == 1  \* cap of the internal error counter
ReplTypeDepth == 1      \* nesting of the types the REPL's compile infers
MaxTypeDepth == 3       \* nesting of the types handed to displayResult
MaxVec == 2             \* length of a vector value handed to displayResult
MaxEntries == 5         \* entries handed to displayGrid
MaxNameLen == 4         \* longest entry name
MaxWindow == 9          \* terminal width
MaxDigits == 5          \* base-1024 digits of a file size
MaxNest == 4            \* nesting of the list type handed to displayListList
MaxElems == 3           \* elements of each vector handed to displayListList
MaxArgs == 2            \* arguments of the application handed to run

Min(a, b) == IF a < b THEN a ELSE b

(***************************************************************************)
(* Types (type.h): a type is a tuple whose first element is its kind       *)
(***************************************************************************)
BaseTypes ==
    {<<"Unit">>, <<"Int">>, <<"Str">>, <<"File">>, <<"Invalid">>, <<"Tuple">>}

RECURSIVE TypesOfDepth(_)
TypesOfDepth(d) ==
    IF d = 0 THEN BaseTypes
    ELSE LET S == TypesOfDepth(d - 1)
         IN  S \cup {<<"Fn", p, r>> : p \in {<<"Unit">>, <<"File">>}, r \in S}
               \cup {<<"List", e>> : e \in S}

typeIsKind(kind, t) == t[1] = kind
typeIsInvalid(t) == t[1] = "Invalid"
typeIsList(t) == t[1] = "List"
typeGetListElements(t) == IF t[1] = "List" THEN t[2] ELSE <<"Invalid">>
typeUnitAppliesToFn(t) == t[1] = "Fn" /\ t[2] = <<"Unit">>
typeGetFnResult(t) == IF t[1] = "Fn" THEN t[3] ELSE <<"Invalid">>

(***************************************************************************)
(* Values (value.h), as far as the driver and the dispatcher look at them  *)
(***************************************************************************)
NullValue == [null |-> TRUE, invalid |-> FALSE, length |-> 0]
Values == [null : {FALSE}, invalid : BOOLEAN, length : 0..MaxVec]
valueIsInvalid(v) == v.invalid
valueGetVectorLength(v) == v.length

\* the names valueGetFilename can return for a File value
Filenames == {"/", "/home"}

(***************************************************************************)
(* The internal error counter (common.h)                                   *)
(***************************************************************************)
errcount(counter) == counter
no_errors_recently(snapshot, counter) == counter = snapshot

(***************************************************************************)
(* C strings                                                               *)
(***************************************************************************)
\* strchr: the 0-based offset of the first c in s, -1 for a null pointer
RECURSIVE strchrFrom(_, _, _)
strchrFrom(s, c, i) ==
    IF i > Len(s) THEN -1
    ELSE IF s[i] = c THEN i - 1
    ELSE strchrFrom(s, c, i + 1)
strchr(s, c) == strchrFrom(s, c, 1)

strlen(s) == Len(s)

\* strncmp(a, b, n) = 0: both agree on the first n characters, a NUL ending
\* the comparison early
strncmpEqual(a, b, n) ==
    SubSeq(a, 1, Min(n, Len(a))) = SubSeq(b, 1, Min(n, Len(b)))

(***************************************************************************)
(* Input lines                                                             *)
(***************************************************************************)
Words ==
    { <<>>, <<"c", "d">>, <<"a", "s", "t">>, <<"t", "y", "p", "e">>,
      <<"e", "x", "i", "t">>, <<"l", "s">>, <<"c", "d", "x">> }

RECURSIVE TailsOfLength(_)
TailsOfLength(n) ==
    IF n = 0 THEN {<<>>}
    ELSE {<<c>> \o t : c \in {" ", "x"}, t \in TailsOfLength(n - 1)}

Tails == UNION {TailsOfLength(n) : n \in 0..MaxTail}

\* meta-command lines, and lines that are expressions
Lines == {<<":">> \o w \o t : w \in Words, t \in Tails} \cup Words \cup Tails

ExitLine == <<":", "e", "x", "i", "t">>

\* readline: a line, or a null pointer at end of input
ReadlineResults ==
    {[null |-> TRUE, str |-> <<>>]} \cup {[null |-> FALSE, str |-> s] : s \in Lines}

NoInput == [null |-> TRUE, str |-> <<>>]

(***************************************************************************)
(* compile (sh.c): the parser and the analyzer each report a number of     *)
(* errors and the tree carries the derived type; either may also report    *)
(* internal errors.                                                        *)
(***************************************************************************)
ReplTypes == TypesOfDepth(ReplTypeDepth)

CompileOutcomes ==
    [parseErrors : 0..MaxErrors, analyzeErrors : 0..MaxErrors,
     dt : ReplTypes, internal : 0..1]

compile(outcome, errors) == errors + outcome.parseErrors + outcome.analyzeErrors

\* run (runner.c:62-81) as the driver sees it: a value, never a null
\* pointer; an unhandled AST kind reports an internal error and yields Invalid
RunOutcomes ==
    {o \in [value : Values, internal : 0..1] : o.internal = 1 => o.value.invalid}

\* what one iteration of the loop did so far
\* result, dt: the arguments of a pending call of displayResult
Fresh ==
    [fn |-> "none", argOffset |-> 0, compiled |-> FALSE, errors |-> 0,
     snapshot |-> 0, atGuard |-> 0, dt |-> <<"Invalid">>, ran |-> FALSE,
     displayed |-> FALSE, result |-> NullValue, returnedNull |-> TRUE,
     cdAttempted |-> FALSE, cdFrom |-> "", printers |-> <<>>,
     entries |-> 0, columns |-> -1, diagnostic |-> "none"]

(***************************************************************************)
(* repl (sh.c:230-273): one pass of the loop up to the routing             *)
(***************************************************************************)
ReplReadLine ==
    /\ session = "running"
    /\ pc = "prompt"
    /\ \E in \in ReadlineResults :
         /\ input' = in
         /\ last' = Fresh
         /\ IF in.null \/ Len(in.str) = 0
              THEN pc' = "prompt" /\ session' = session
            ELSE IF in.str = ExitLine
              THEN pc' = "return" /\ session' = "exited"
            ELSE /\ session' = session
                 /\ pc' = IF in.str[1] = ":" THEN "replCmd" ELSE "gosh"
    /\ UNCHANGED <<internalerrors, workingDir>>
    /\ UNCHANGED <<dispVars, gridVars, sizeVars, listVars, runVars>>

(***************************************************************************)
(* replCmd (sh.c:198-228).  The handler is given the offset                *)
(* cmd.length + 1 whether or not the line reaches that far.  What a        *)
(* handler reads past the NUL is whatever the heap holds there: the        *)
(* outcome of compiling it is as unconstrained as that of any other text.  *)
(***************************************************************************)
commands ==
    << [name |-> <<"c", "d">>, handler |-> "replCD"],
       [name |-> <<"a", "s", "t">>, handler |-> "replAST"],
       [name |-> <<"t", "y", "p", "e">>, handler |-> "replType"] >>

cmdLengthOf(in) ==
    LET firstSpace == strchr(in, " ")
    IN  IF firstSpace # -1 THEN firstSpace ELSE strlen(in)

\* the index of the first command of the same length and name, 0 if none
RECURSIVE findCommand(_, _, _)
findCommand(in, cmdLength, i) ==
    IF i > Len(commands) THEN 0
    ELSE IF cmdLength = Len(commands[i].name)
            /\ strncmpEqual(in, commands[i].name, Len(commands[i].name))
         THEN i
    ELSE findCommand(in, cmdLength, i + 1)

\* input + cmd.length + 1
handlerArgOffset(cmd) == Len(cmd.name) + 1

replCmd(in) ==
    LET cmdLength == cmdLengthOf(in)
        i == findCommand(in, cmdLength, 1)
    IN  IF cmdLength = 0
          THEN [handler |-> "none", argOffset |-> 0,
                diagnostic |-> "No command name given"]
        ELSE IF i # 0
          THEN [handler |-> commands[i].handler,
                argOffset |-> handlerArgOffset(commands[i]),
                diagnostic |-> "none"]
        ELSE [handler |-> "none", argOffset |-> 0,
              diagnostic |-> "No command named"]

ReplCmd ==
    /\ session = "running"
    /\ pc = "replCmd"
    /\ LET in == Tail(input.str)          \* replCmd(compiler, input+1)
           r == replCmd(in)
       IN  /\ last' = [last EXCEPT !.fn = r.handler,
                                   !.argOffset = r.argOffset,
                                   !.diagnostic = r.diagnostic]
           /\ pc' = IF r.handler = "none" THEN "prompt" ELSE r.handler
    /\ UNCHANGED <<session, input, internalerrors, workingDir>>
    /\ UNCHANGED <<dispVars, gridVars, sizeVars, listVars, runVars>>

(***************************************************************************)
(* replCD (sh.c:138-165)                                                   *)
(***************************************************************************)
\* which arm of the if chain on the compiled tree is taken
replCDBranch(errors, dt) ==
    IF errors # 0 \/ typeIsInvalid(dt) THEN "silent"
    ELSE IF ~typeIsKind("File", dt) THEN "notFile"
    ELSE "run"

replCDUses_IgnoresInvalid(result) == ~result.null

\* whether the value run returned is handed to dirsChangeWD
replCDUses(result) == ~(result.null \/ valueIsInvalid(result))

ReplCD ==
    /\ session = "running"
    /\ pc = "replCD"
    /\ \E o \in CompileOutcomes, r \in RunOutcomes, newWD \in Filenames,
          chdirFails \in BOOLEAN :
         LET errors == compile(o, 0)
             branch == replCDBranch(errors, o.dt)
             runs   == branch = "run"
             uses   == runs /\ replCDUses(r.value)
         IN  /\ o.internal + (IF runs THEN r.internal ELSE 0)
                  <= MaxInternalErrors - internalerrors
             /\ internalerrors' =
                  internalerrors + o.internal + (IF runs THEN r.internal ELSE 0)
             /\ workingDir' = IF uses /\ ~chdirFails THEN newWD ELSE workingDir
             /\ last' = [last EXCEPT
                  !.compiled = TRUE, !.errors = errors, !.dt = o.dt,
                  !.ran = runs,
                  !.result = IF runs THEN r.value ELSE NullValue,
                  !.cdAttempted = uses, !.cdFrom = workingDir,
                  !.diagnostic =
                      IF branch = "notFile" THEN ":cd requires a File argument"
                      ELSE IF uses /\ chdirFails THEN "Unable to enter directory"
                      ELSE "none"]
    /\ pc' = "prompt"
    /\ UNCHANGED <<session, input>>
    /\ UNCHANGED <<dispVars, gridVars, sizeVars, listVars, runVars>>

(***************************************************************************)
(* replAST (sh.c:167-174), replType (sh.c:176-184)                         *)
(***************************************************************************)
ReplAST ==
    /\ session = "running"
    /\ pc = "replAST"
    /\ \E o \in CompileOutcomes :
         /\ o.internal <= MaxInternalErrors - internalerrors
         /\ internalerrors' = internalerrors + o.internal
         /\ last' = [last EXCEPT !.compiled = TRUE, !.dt = o.dt,
                                 !.diagnostic = "printAST"]
    /\ pc' = "prompt"
    /\ UNCHANGED <<session, input, workingDir>>
    /\ UNCHANGED <<dispVars, gridVars, sizeVars, listVars, runVars>>

ReplType ==
    /\ session = "running"
    /\ pc = "replType"
    /\ \E o \in CompileOutcomes :
         LET errors == compile(o, 0)
         IN  /\ o.internal <= MaxInternalErrors - internalerrors
             /\ internalerrors' = internalerrors + o.internal
             /\ last' = [last EXCEPT
                  !.compiled = TRUE, !.errors = errors, !.dt = o.dt,
                  !.diagnostic = IF errors = 0 THEN "typeGetStr" ELSE "none"]
    /\ pc' = "prompt"
    /\ UNCHANGED <<session, input, workingDir>>
    /\ UNCHANGED <<dispVars, gridVars, sizeVars, listVars, runVars>>

(***************************************************************************)
(* gosh (sh.c:92-113)                                                      *)
(***************************************************************************)
goshGuard_IgnoresCounter(errors, snapshot, counter) == errors = 0

\* errors == 0 && no_errors_recently(internalerrors)
goshGuard(errors, snapshot, counter) ==
    errors = 0 /\ no_errors_recently(snapshot, counter)

Gosh(display) ==
    /\ session = "running"
    /\ pc = "gosh"
    /\ \E o \in CompileOutcomes, r \in RunOutcomes :
         LET snapshot == errcount(internalerrors)
             errors   == compile(o, 0)
             atGuard  == internalerrors + o.internal
             go       == goshGuard(errors, snapshot, atGuard)
             ranNow   == IF go THEN r.internal ELSE 0
         IN  /\ o.internal + ranNow <= MaxInternalErrors - internalerrors
             /\ internalerrors' = atGuard + ranNow
             /\ last' = [last EXCEPT
                  !.fn = "gosh", !.compiled = TRUE, !.errors = errors,
                  !.snapshot = snapshot, !.atGuard = atGuard,
                  !.ran = go, !.displayed = go /\ display,
                  !.dt = IF go /\ display THEN o.dt ELSE <<"Invalid">>,
                  !.result = IF go /\ display THEN r.value ELSE NullValue,
                  !.returnedNull = ~go]
             /\ pc' = IF go /\ display THEN "displayResult" ELSE "prompt"
    /\ UNCHANGED <<session, input, workingDir>>
    /\ UNCHANGED <<dispVars, gridVars, sizeVars, listVars, runVars>>

(***************************************************************************)
(* displayResult (display.c:294-340): the notice of an automatic unit      *)
(* application, then the printers called, in order.  called is what        *)
(* valueCall(result, unit) returns.                                        *)
(***************************************************************************)
displayResult_ShortListFirst(result, resultType, called) ==
    LET applied  == typeUnitAppliesToFn(resultType)
        ty       == IF applied THEN typeGetFnResult(resultType) ELSE resultType
        v        == IF applied THEN called ELSE result
        elements == typeGetListElements(ty)
        printers ==
            IF valueIsInvalid(v) THEN <<"displayRegular">>
            ELSE IF typeIsList(ty) THEN
                IF valueGetVectorLength(v) <= 1 THEN <<"displayRegular">>
                ELSE IF typeIsList(elements) THEN <<"displayListList">>
                ELSE IF typeIsKind("File", elements) THEN <<"displayFileList">>
                ELSE IF typeIsKind("Tuple", elements) THEN <<"displayTable">>
                ELSE <<"displayRegular">>
            ELSE IF typeIsKind("Str", ty) THEN <<"displayStr">>
            ELSE <<"displayRegular">>
                 \o (IF typeIsKind("File", ty) THEN <<"displayFile">> ELSE <<>>)
    IN  [notices |-> IF applied THEN 1 ELSE 0, type |-> ty, value |-> v,
         printers |-> printers]

displayResult(result, resultType, called) ==
    LET applied  == typeUnitAppliesToFn(resultType)
        ty       == IF applied THEN typeGetFnResult(resultType) ELSE resultType
        v        == IF applied THEN called ELSE result
        elements == typeGetListElements(ty)
        printers ==
            IF valueIsInvalid(v) THEN <<"displayRegular">>
            ELSE IF typeIsList(ty) THEN
                IF typeIsList(elements) THEN <<"displayListList">>
                ELSE IF valueGetVectorLength(v) <= 1 THEN <<"displayRegular">>
                ELSE IF typeIsKind("File", elements) THEN <<"displayFileList">>
                ELSE IF typeIsKind("Tuple", elements) THEN <<"displayTable">>
                ELSE <<"displayRegular">>
            ELSE IF typeIsKind("Str", ty) THEN <<"displayStr">>
            ELSE <<"displayRegular">>
                 \o (IF typeIsKind("File", ty) THEN <<"displayFile">> ELSE <<>>)
    IN  [notices |-> IF applied THEN 1 ELSE 0, type |-> ty, value |-> v,
         printers |-> printers]

(***************************************************************************)
(* displayGrid (display.c:50-77)                                           *)
(***************************************************************************)
gap == 2

\* int columns = windowWidth / columnWidth, after columnWidth += gap
gridColumns(windowWidth, columnWidth) == windowWidth \div (columnWidth + gap)

\* the smallest number of rows of width b that hold a entries, b > 0
intdiv_roundup(a, b) == (a + b - 1) \div b

\* vectorGet: the entry at index, a null pointer (FALSE) outside the vector
vectorGet(length, index) == index >= 0 /\ index < length

gridCellIndex_AcrossFirst(row, col, rows) == col + row * rows

gridCellIndex(row, col, rows) == row + col * rows

\* the entries one row prints from column col on; the loop over the columns
\* stops at the first missing entry
RECURSIVE gridRow(_, _, _, _, _)
gridRow(length, row, col, columns, rows) ==
    IF col >= columns THEN <<>>
    ELSE LET index == gridCellIndex(row, col, rows)
         IN  IF ~vectorGet(length, index) THEN <<>>
             ELSE <<index>> \o gridRow(length, row, col + 1, columns, rows)

gridLines(length, columns, rows) ==
    [row \in 1..rows |-> gridRow(length, row - 1, 0, columns, rows)]

\* The outcomes of a call: with columns = 0 the row count divides by zero,
\* which traps or leaves some number of rows, each printed empty
displayGrid(length, columnWidth, windowWidth) ==
    LET columns == gridColumns(windowWidth, columnWidth)
    IN  IF columns # 0
        THEN {[trapped |-> FALSE, columns |-> columns,
               rows |-> intdiv_roundup(length, columns),
               lines |-> gridLines(length, columns,
                                   intdiv_roundup(length, columns))]}
        ELSE {[trapped |-> TRUE, columns |-> 0, rows |-> 0, lines |-> <<>>]}
             \cup {[trapped |-> FALSE, columns |-> 0, rows |-> r,
                    lines |-> gridLines(length, 0, r)] : r \in 0..length}

\* the widths the longest of length names can have
NameWidths(length) == IF length = 0 THEN {0} ELSE 1..MaxNameLen

(***************************************************************************)
(* The display of a result inside the REPL: displayResult, then            *)
(* displayFileList (display.c:151-175) or displayFile and displayDirectory *)
(* (display.c:79-142), both of which end in displayGrid                    *)
(***************************************************************************)
ReplDisplayResult ==
    /\ session = "running"
    /\ pc = "displayResult"
    /\ \E called \in Values :
         LET d == displayResult(last.result, last.dt, called)
             n == Len(d.printers)
         IN  /\ last' = [last EXCEPT !.printers = d.printers,
                                     !.entries = valueGetVectorLength(d.value),
                                     !.dt = <<"Invalid">>,
                                     !.result = NullValue]
             /\ pc' = IF d.printers[n] \in {"displayFileList", "displayFile"}
                      THEN d.printers[n] ELSE "prompt"
    /\ UNCHANGED <<session, input, internalerrors, workingDir>>
    /\ UNCHANGED <<dispVars, gridVars, sizeVars, listVars, runVars>>

\* nicestat decides whether the file is a directory; its listing has any
\* number of names
ReplDisplayFile ==
    /\ session = "running"
    /\ pc = "displayFile"
    /\ \E isDir \in BOOLEAN, names \in 0..MaxEntries :
         IF isDir
         THEN pc' = "displayGrid" /\ last' = [last EXCEPT !.entries = names]
         ELSE pc' = "prompt" /\ last' = last
    /\ UNCHANGED <<session, input, internalerrors, workingDir>>
    /\ UNCHANGED <<dispVars, gridVars, sizeVars, listVars, runVars>>

ReplDisplayFileList ==
    /\ session = "running"
    /\ pc = "displayFileList"
    /\ pc' = "displayGrid"
    /\ UNCHANGED <<session, input, internalerrors, workingDir, last>>
    /\ UNCHANGED <<dispVars, gridVars, sizeVars, listVars, runVars>>

ReplDisplayGrid ==
    /\ session = "running"
    /\ pc = "displayGrid"
    /\ \E windowWidth \in 1..MaxWindow, width \in NameWidths(last.entries) :
       \E g \in displayGrid(last.entries, width, windowWidth) :
         /\ last' = [last EXCEPT !.columns = g.columns]
         /\ IF g.trapped
            THEN session' = "crashed" /\ pc' = "return"
            ELSE session' = session /\ pc' = "prompt"
    /\ UNCHANGED <<input, internalerrors, workingDir>>
    /\ UNCHANGED <<dispVars, gridVars, sizeVars, listVars, runVars>>

(***************************************************************************)
(* printSizeNicely (display.c:20-42).  A size is written in base           *)
(* sizeMagnitudes, least significant digit first, so that sizes up to the  *)
(* width of size_t are compared exactly; magnitude is sizeMagnitudes to the *)
(* power orderOfMag.  The doubles of the code hold size / magnitude        *)
(* exactly wherever the comparisons with 10 and 100 can go either way.     *)
(***************************************************************************)
sizeMagnitudes == 1024
maxOrderOfMag == 4
units == <<"bytes", "kB", "MB", "GB", "TB">>

\* size / sizeMagnitudes^(j-1), rounded down and cut off at 2*sizeMagnitudes
RECURSIVE sizeFromDigit(_, _)
sizeFromDigit(size, j) ==
    IF j > Len(size) THEN 0
    ELSE Min(2 * sizeMagnitudes, size[j] + sizeMagnitudes * sizeFromDigit(size, j + 1))

sizeRemainder(size, order) == \E j \in 1..Min(order, Len(size)) : size[j] # 0

\* size > c * magnitude, for c <= sizeMagnitudes
sizeExceeds(size, c, order) ==
    LET whole == sizeFromDigit(size, order + 1)
    IN  whole > c \/ (whole = c /\ sizeRemainder(size, order))

\* the loop of lines 25-31
RECURSIVE findOrderOfMag(_, _)
findOrderOfMag(size, orderOfMag) ==
    IF ~sizeExceeds(size, sizeMagnitudes, orderOfMag) THEN orderOfMag
    ELSE IF orderOfMag + 1 >= maxOrderOfMag THEN orderOfMag + 1
    ELSE findOrderOfMag(size, orderOfMag + 1)

\* relativeSize > 100 ? 0 : relativeSize > 10 ? 1 : 2
digitsAfterPoint(size, orderOfMag) ==
    IF sizeExceeds(size, 100, orderOfMag) THEN 0
    ELSE IF sizeExceeds(size, 10, orderOfMag) THEN 1
    ELSE 2

printSizeNicely(size) ==
    LET orderOfMag == findOrderOfMag(size, 0)
    IN  [orderOfMag |-> orderOfMag, unit |-> units[orderOfMag + 1],
         digitsAfterPoint |-> digitsAfterPoint(size, orderOfMag)]

(***************************************************************************)
(* displayListList (display.c:217-273).  The output is the sequence of     *)
(* characters written; an element printed by valuePrint is the one token   *)
(* "value" and the line " :: {type}\n" the one token "::".                 *)
(***************************************************************************)
displayListList_bracesOnOwnLine == FALSE
displayListList_bracesOnOwnLineIfRecursing == TRUE

putnchar(c, n) == [i \in 1..n |-> c]

typeOnNewLine_Always(bracesOnOwnLine) == TRUE

\* if (!bracesOnOwnLine) putchar('\n'), before the type is printed
typeOnNewLine(bracesOnOwnLine) == ~bracesOnOwnLine

RECURSIVE displayListList(_, _, _)
RECURSIVE displayListElements(_, _, _, _, _)

\* the body of the for_vector_indexed loop, from index i on
displayListElements(elements, elementType, recursing, depth, i) ==
    IF i >= Len(elements) THEN <<>>
    ELSE (IF i # 0 THEN putnchar(" ", depth + 1) ELSE <<>>)
         \o (IF recursing
             THEN displayListList(elements[i + 1], elementType, depth + 1)
             ELSE <<"value">>)
         \o (IF i < Len(elements) - 1 THEN <<",", "\n">> ELSE <<>>)
         \o displayListElements(elements, elementType, recursing, depth, i + 1)

displayListList(result, resultType, depth) ==
    LET elements    == result
        elementType == typeGetListElements(resultType)
        recursing   == typeIsList(typeGetListElements(elementType))
        bracesOnOwnLine ==
            \/ displayListList_bracesOnOwnLine
            \/ (recursing /\ displayListList_bracesOnOwnLineIfRecursing)
    IN  <<"[">>
        \o (IF bracesOnOwnLine THEN <<"\n">> \o putnchar(" ", depth + 1) ELSE <<>>)
        \o displayListElements(elements, elementType, recursing, depth, 0)
        \o (IF bracesOnOwnLine THEN <<"\n">> \o putnchar(" ", depth) ELSE <<>>)
        \o <<"]">>
        \o (IF depth = 0
            THEN (IF typeOnNewLine(bracesOnOwnLine) THEN <<"\n">> ELSE <<>>)
                 \o <<"::">>
            ELSE <<>>)

(***************************************************************************)
(* The REPL                                                                *)
(***************************************************************************)
Idle == [idle |-> TRUE]

InitRepl ==
    /\ session = "running"
    /\ pc = "prompt"
    /\ input = NoInput
    /\ internalerrors = 0
    /\ workingDir \in Filenames
    /\ last = Fresh

InitOthersIdle ==
    /\ dispIn = Idle /\ dispOut = Idle
    /\ gridIn = Idle /\ gridOut = Idle
    /\ sizeIn = Idle /\ sizeOut = Idle
    /\ listIn = Idle /\ listOut = Idle
    /\ ast = Idle /\ astAtEntry = Idle /\ stack = <<>> /\ events = <<>>
    /\ returned = <<>>

Init == InitRepl /\ InitOthersIdle

InitReplIdle ==
    /\ session = "idle"
    /\ pc = "idle"
    /\ input = NoInput
    /\ internalerrors = 0
    /\ workingDir = "/"
    /\ last = Fresh

InitRunIdle ==
    /\ ast = Idle /\ astAtEntry = Idle /\ stack = <<>> /\ events = <<>>
    /\ returned = <<>>

Next ==
    \/ ReplReadLine
    \/ ReplCmd
    \/ ReplCD
    \/ ReplAST
    \/ ReplType
    \/ Gosh(TRUE)
    \/ ReplDisplayResult
    \/ ReplDisplayFile
    \/ ReplDisplayFileList
    \/ ReplDisplayGrid

Spec == Init /\ [][Next]_vars

(***************************************************************************)
(* Properties of the REPL and the pipeline entry                           *)
(***************************************************************************)
Handlers == {"replCD", "replAST", "replType"}

\* C1: gosh invokes the evaluator and the display engine only if compile
\* reported zero errors and the internal error counter has not increased
\* since the snapshot taken at entry; otherwise neither is invoked and the
\* value returned is null.
C1_EvaluatesOnlyWhenClean ==
    last.fn = "gosh" =>
        LET clean == last.errors = 0 /\ ~(last.atGuard > last.snapshot)
        IN  /\ last.ran => clean
            /\ last.displayed => clean
            /\ ~clean => ~last.ran /\ ~last.displayed /\ last.returnedNull

\* a compile without errors during which an internal error was counted
C1_Witness ==
    /\ last.fn = "gosh"
    /\ last.errors = 0
    /\ last.atGuard > last.snapshot
    /\ ~last.ran

\* C6: :cd changes the working directory only when its expression compiles
\* without errors, types as File and evaluates to a non-null, non-Invalid
\* value; otherwise the evaluator's result is not used and the working
\* directory stays as it was.
C6_CdOnlyForValidFile ==
    last.fn = "replCD" /\ last.compiled =>
        /\ last.cdAttempted =>
              /\ last.errors = 0
              /\ last.dt = <<"File">>
              /\ last.ran /\ ~last.result.null /\ ~last.result.invalid
        /\ ~last.cdAttempted => workingDir = last.cdFrom
        /\ (last.errors # 0 \/ last.dt # <<"File">>) => ~last.ran

\* :cd entered another directory
C6_Witness ==
    /\ last.fn = "replCD"
    /\ last.cdAttempted
    /\ workingDir # last.cdFrom

\* C7: the loop stops exactly when it reads ":exit"; after any other line
\* it is still running, and an empty line (or none) triggers neither the
\* pipeline nor a meta-command.
C7_LoopStopsExactlyOnExit ==
    /\ session # "running" <=> (~input.null /\ input.str = ExitLine)
    /\ (input.null \/ input.str = <<>>) => pc = "prompt" /\ last = Fresh

\* C10: the remainder handed to a command handler starts inside the line,
\* at or before its terminating NUL.
C10_HandlerArgInsideLine ==
    pc \in Handlers => last.argOffset <= strlen(Tail(input.str))

(***************************************************************************)
(* The display engine, one call at a time                                  *)
(***************************************************************************)
DisplayTypes == TypesOfDepth(MaxTypeDepth)

InitDisplay ==
    /\ dispIn \in [result : Values, resultType : DisplayTypes, called : Values]
    /\ dispOut = Idle
    /\ gridIn = Idle /\ gridOut = Idle
    /\ sizeIn = Idle /\ sizeOut = Idle
    /\ listIn = Idle /\ listOut = Idle
    /\ InitReplIdle /\ InitRunIdle

DisplayResult ==
    /\ dispIn # Idle /\ dispOut = Idle
    /\ dispOut' = displayResult(dispIn.result, dispIn.resultType, dispIn.called)
    /\ UNCHANGED <<dispIn, replVars, gridVars, sizeVars, listVars, runVars>>

SpecDisplay == InitDisplay /\ [][DisplayResult]_vars

InitGrid ==
    /\ gridIn \in [length : 0..MaxEntries, columnWidth : 0..MaxNameLen,
                   windowWidth : 1..MaxWindow]
    /\ gridOut = Idle
    /\ dispIn = Idle /\ dispOut = Idle
    /\ sizeIn = Idle /\ sizeOut = Idle
    /\ listIn = Idle /\ listOut = Idle
    /\ InitReplIdle /\ InitRunIdle

DisplayGrid ==
    /\ gridIn # Idle /\ gridOut = Idle
    /\ gridOut' \in displayGrid(gridIn.length, gridIn.columnWidth, gridIn.windowWidth)
    /\ UNCHANGED <<gridIn, replVars, dispVars, sizeVars, listVars, runVars>>

SpecGrid == InitGrid /\ [][DisplayGrid]_vars

SizeDigits == {0, 1, 10, 11, 100, 101}

InitSize ==
    /\ sizeIn \in [1..MaxDigits -> SizeDigits]
    /\ sizeOut = Idle
    /\ dispIn = Idle /\ dispOut = Idle
    /\ gridIn = Idle /\ gridOut = Idle
    /\ listIn = Idle /\ listOut = Idle
    /\ InitReplIdle /\ InitRunIdle

PrintSizeNicely ==
    /\ sizeIn # Idle /\ sizeOut = Idle
    /\ sizeOut' = printSizeNicely(sizeIn)
    /\ UNCHANGED <<sizeIn, replVars, dispVars, gridVars, listVars, runVars>>

SpecSize == InitSize /\ [][PrintSizeNicely]_vars

\* [..[File]..], nest brackets deep
RECURSIVE ListType(_)
ListType(nest) == IF nest = 0 THEN <<"File">> ELSE <<"List", ListType(nest - 1)>>

\* a value of type ListType(nest) whose vectors at level l have lens[l]
\* elements; the vectors of the innermost two levels are printed by
\* valuePrint and stand as "value"
RECURSIVE ListValue(_, _)
ListValue(lens, level) ==
    IF level > Len(lens) THEN "value"
    ELSE [i \in 1..lens[level] |-> ListValue(lens, level + 1)]

ListInputs ==
    UNION {[nest : {n}, lens : [1..(n - 1) -> 0..MaxElems]] : n \in 2..MaxNest}

InitListList ==
    /\ listIn \in ListInputs
    /\ listOut = Idle
    /\ dispIn = Idle /\ dispOut = Idle
    /\ gridIn = Idle /\ gridOut = Idle
    /\ sizeIn = Idle /\ sizeOut = Idle
    /\ InitReplIdle /\ InitRunIdle

DisplayListList ==
    /\ listIn # Idle /\ listOut = Idle
    /\ listOut' = [out |-> displayListList(ListValue(listIn.lens, 1),
                                           ListType(listIn.nest), 0)]
    /\ UNCHANGED <<listIn, replVars, dispVars, gridVars, sizeVars, runVars>>

SpecListList == InitListList /\ [][DisplayListList]_vars

(***************************************************************************)
(* The evaluator (runner.c).  run is recursive: stack holds the calls of   *)
(* run in progress, innermost last, and returned the value the call that   *)
(* just ended gave back (<<>> when there is none).  A node is named by its *)
(* path from the root: 0 for the head l, i + 1 for children[i].  events    *)
(* records every entry into run and every valueCall.                       *)
(***************************************************************************)
Node(kind, name, l, children) ==
    [kind |-> kind, name |-> name, l |-> l, children |-> children]

StrLit(name) == Node("astStrLit", name, <<>>, <<>>)
SymbolLit(name) == Node("astSymbolLit", name, <<>>, <<>>)
ListLit(children) == Node("astListLit", "", <<>>, children)
FnApp(l, children) == Node("astFnApp", "", <<l>>, children)

\* valueCall (value.h) is left uninterpreted
valueCall(fn, arg) == <<"valueCall", fn, arg>>
valueCreateFile(name) == <<"File", name>>
valueCreateFn(impl) == <<"Fn", impl>>
valueCreateInvalid == <<"Invalid">>
valueCreateVector(items) == <<"Vector", items>>

Frame(node, path) ==
    [node |-> node, path |-> path, at |-> "run", i |-> 0, result |-> <<>>]

Top == stack[Len(stack)]
Callers == SubSeq(stack, 1, Len(stack) - 1)

\* the call on top of the stack ends and gives value back
Return(value) ==
    /\ stack' = Callers
    /\ returned' = value

\* the call on top moves on as frame and calls run on node
Call(frame, node, path) ==
    /\ stack' = Callers \o <<frame, Frame(node, path)>>
    /\ returned' = <<>>

Entered == events' = Append(events, <<"run", Top.path>>)

RunIdle == UNCHANGED <<ast, astAtEntry, replVars, dispVars, gridVars, sizeVars, listVars>>

\* runStrLit (runner.c:35-39)
RunStrLit ==
    /\ stack # <<>> /\ Top.at = "run" /\ Top.node.kind = "astStrLit"
    /\ Entered
    /\ Return(valueCreateFile(Top.node.name))
    /\ RunIdle

\* runSymbolLit (runner.c:52-60)
RunSymbolLit ==
    /\ stack # <<>> /\ Top.at = "run" /\ Top.node.kind = "astSymbolLit"
    /\ Entered
    /\ Return(IF Top.node.name = "size" THEN valueCreateFn("impl_size__")
              ELSE valueCreateInvalid)
    /\ RunIdle

\* run (runner.c:77-80): no handler for the kind
RunUnhandled ==
    /\ stack # <<>> /\ Top.at = "run"
    /\ Top.node.kind \notin {"astFnApp", "astStrLit", "astListLit", "astSymbolLit"}
    /\ Entered
    /\ Return(valueCreateInvalid)
    /\ RunIdle

applyArgument_Swapped(result, arg) == valueCall(arg, result)

\* result = valueCall(result, run(env, arg))
applyArgument(result, arg) == valueCall(result, arg)

\* runFnApp (runner.c:24-33): value* result = run(env, node->l)
RunFnApp ==
    /\ stack # <<>> /\ Top.at = "run" /\ Top.node.kind = "astFnApp"
    /\ Entered
    /\ Call([Top EXCEPT !.at = "head"], Top.node.l[1], Top.path \o <<0>>)
    /\ RunIdle

RunFnAppHead ==
    /\ stack # <<>> /\ Top.at = "head" /\ returned # <<>>
    /\ stack' = Callers \o <<[Top EXCEPT !.at = "args", !.i = 0, !.result = returned]>>
    /\ returned' = <<>>
    /\ UNCHANGED events
    /\ RunIdle

\* the loop: run(env, arg) for the next argument
RunFnAppArg ==
    /\ stack # <<>> /\ Top.node.kind = "astFnApp" /\ Top.at = "args"
    /\ Top.i < Len(Top.node.children)
    /\ Call([Top EXCEPT !.at = "arg"], Top.node.children[Top.i + 1],
            Top.path \o <<Top.i + 1>>)
    /\ UNCHANGED events
    /\ RunIdle

RunFnAppCall ==
    /\ stack # <<>> /\ Top.node.kind = "astFnApp" /\ Top.at = "arg"
    /\ returned # <<>>
    /\ stack' = Callers \o <<[Top EXCEPT !.at = "args", !.i = Top.i + 1,
                                         !.result = applyArgument(Top.result, returned)]>>
    /\ returned' = <<>>
    /\ events' = Append(events, <<"valueCall", Top.path, Top.i>>)
    /\ RunIdle

RunFnAppReturn ==
    /\ stack # <<>> /\ Top.node.kind = "astFnApp" /\ Top.at = "args"
    /\ Top.i >= Len(Top.node.children)
    /\ Return(Top.result)
    /\ UNCHANGED events
    /\ RunIdle

\* runListLit (runner.c:41-50)
RunListLit ==
    /\ stack # <<>> /\ Top.at = "run" /\ Top.node.kind = "astListLit"
    /\ Entered
    /\ stack' = Callers \o <<[Top EXCEPT !.at = "args", !.i = 0, !.result = <<>>]>>
    /\ returned' = <<>>
    /\ RunIdle

RunListLitElement ==
    /\ stack # <<>> /\ Top.node.kind = "astListLit" /\ Top.at = "args"
    /\ Top.i < Len(Top.node.children)
    /\ Call([Top EXCEPT !.at = "arg"], Top.node.children[Top.i + 1],
            Top.path \o <<Top.i + 1>>)
    /\ UNCHANGED events
    /\ RunIdle

RunListLitPush ==
    /\ stack # <<>> /\ Top.node.kind = "astListLit" /\ Top.at = "arg"
    /\ returned # <<>>
    /\ stack' = Callers \o <<[Top EXCEPT !.at = "args", !.i = Top.i + 1,
                                         !.result = Append(Top.result, returned)]>>
    /\ returned' = <<>>
    /\ UNCHANGED events
    /\ RunIdle

RunListLitReturn ==
    /\ stack # <<>> /\ Top.node.kind = "astListLit" /\ Top.at = "args"
    /\ Top.i >= Len(Top.node.children)
    /\ Return(valueCreateVector(Top.result))
    /\ UNCHANGED events
    /\ RunIdle

SeqsUpTo(S, n) == UNION {[1..k -> S] : k \in 0..n}

Leaves == {StrLit("a"), SymbolLit("size"), Node("astInvalid", "", <<>>, <<>>)}

\* leaves, and applications and list literals of at most one leaf
Operands ==
    Leaves
    \cup {FnApp(SymbolLit("size"), c) : c \in SeqsUpTo({StrLit("a")}, 1)}
    \cup {ListLit(c) : c \in SeqsUpTo({StrLit("a")}, 1)}

Applications == {FnApp(l, c) : l \in Operands, c \in SeqsUpTo(Operands, MaxArgs)}

InitRun ==
    /\ ast \in Applications
    /\ astAtEntry = ast
    /\ stack = <<Frame(ast, <<>>)>>
    /\ events = <<>>
    /\ returned = <<>>
    /\ dispIn = Idle /\ dispOut = Idle
    /\ gridIn = Idle /\ gridOut = Idle
    /\ sizeIn = Idle /\ sizeOut = Idle
    /\ listIn = Idle /\ listOut = Idle
    /\ InitReplIdle

NextRun ==
    \/ RunStrLit
    \/ RunSymbolLit
    \/ RunUnhandled
    \/ RunFnApp
    \/ RunFnAppHead
    \/ RunFnAppArg
    \/ RunFnAppCall
    \/ RunFnAppReturn
    \/ RunListLit
    \/ RunListLitElement
    \/ RunListLitPush
    \/ RunListLitReturn

SpecRun == InitRun /\ [][NextRun]_vars

(***************************************************************************)
(* Properties of the display engine                                        *)
(***************************************************************************)
\* C2: displayResult applies unit at most once, then chooses one printer by
\* the order of checks: an Invalid value is scalar; a list of lists goes to
\* the nested-list printer, a vector of at most one element to scalar, a
\* list of files to the grid, a list of tuples to the table, any other list
\* to scalar; a Str goes to the string printer; anything else is scalar,
\* followed by the file description only when the type is File.
C2_DisplayDispatch ==
    dispOut # Idle =>
        LET given == dispIn.resultType
            auto  == given[1] = "Fn" /\ given[2] = <<"Unit">>
            t     == IF auto THEN given[3] ELSE given
            v     == IF auto THEN dispIn.called ELSE dispIn.result
            many  == v.length > 1
            p     == dispOut.printers
        IN  /\ dispOut.notices = (IF auto THEN 1 ELSE 0)
            /\ dispOut.type = t
            /\ v.invalid => p = <<"displayRegular">>
            /\ (~v.invalid /\ t[1] = "List") =>
                  /\ t[2][1] = "List" => p = <<"displayListList">>
                  /\ (t[2][1] # "List" /\ ~many) => p = <<"displayRegular">>
                  /\ (t[2][1] = "File" /\ many) => p = <<"displayFileList">>
                  /\ (t[2][1] = "Tuple" /\ many) => p = <<"displayTable">>
                  /\ (t[2][1] \notin {"List", "File", "Tuple"} /\ many) =>
                        p = <<"displayRegular">>
            /\ (~v.invalid /\ t[1] = "Str") => p = <<"displayStr">>
            /\ (~v.invalid /\ t[1] = "File") =>
                  p = <<"displayRegular", "displayFile">>
            /\ (~v.invalid /\ t[1] \notin {"List", "Str", "File"}) =>
                  p = <<"displayRegular">>

\* () -> () -> Int: applied once, and the function that is left is shown as
\* a scalar
C2_Witness ==
    /\ dispOut # Idle
    /\ dispIn.resultType = <<"Fn", <<"Unit">>, <<"Fn", <<"Unit">>, <<"Int">>>>>>
    /\ ~dispIn.called.invalid
    /\ dispOut.notices = 1
    /\ dispOut.printers = <<"displayRegular">>

\* the number of rows that hold n entries in k columns
CeilDiv(n, k) == CHOOSE r \in 0..n : r * k >= n /\ (r = 0 \/ (r - 1) * k < n)

\* C3: for N >= 0 entries of width W >= 1 on a terminal of width T >= W + 2,
\* with k = floor(T / (W + 2)) and r = ceil(N / k): exactly r lines are
\* printed, the cell at (row, col) shows entry row + col * r, every entry is
\* printed exactly once and cells whose index is >= N are blank.
C3_GridFillsDownColumns ==
    (gridOut # Idle /\ gridIn.columnWidth >= 1
       /\ gridIn.windowWidth >= gridIn.columnWidth + 2) =>
        LET N == gridIn.length
            k == gridIn.windowWidth \div (gridIn.columnWidth + 2)
            r == CeilDiv(N, k)
            lines == gridOut.lines
        IN  /\ ~gridOut.trapped
            /\ Len(lines) = r
            /\ \A row \in 0..(r - 1), col \in 0..(k - 1) :
                 IF row + col * r < N
                 THEN Len(lines[row + 1]) > col
                      /\ lines[row + 1][col + 1] = row + col * r
                 ELSE Len(lines[row + 1]) <= col
            /\ \A e \in 0..(N - 1) :
                 Cardinality({rc \in (1..r) \X (1..k) :
                     rc[2] <= Len(lines[rc[1]]) /\ lines[rc[1]][rc[2]] = e}) = 1

\* five entries in two columns: three rows, the last with one blank cell
C3_Witness ==
    /\ gridOut # Idle
    /\ gridIn.length = 5
    /\ gridIn.columnWidth = 2
    /\ gridIn.windowWidth = 9
    /\ gridOut.lines = <<<<0, 3>>, <<1, 4>>, <<2>>>>

\* C4: for every terminal width and entry width the column count is at
\* least 1, so the row count is computed with a non-zero divisor.
C4_ColumnsAtLeastOne ==
    gridOut # Idle => gridOut.columns >= 1 /\ ~gridOut.trapped

C8_SuffixAlwaysOnNewLine ==
    listOut # Idle =>
        LET out == listOut.out
            n   == Len(out)
        IN  out[n] = "::" /\ out[n - 1] = "\n" /\ out[n - 2] = "]"

\* C8 as amended: at depth 0 the suffix is the last thing written; for a
\* list of plain lists ([[a]]) a newline separates the closing bracket from
\* it, and for deeper nestings ([[[a]]] and beyond) the closing bracket,
\* alone at the start of its own line, is followed by the suffix at once.
C8_SuffixOnNewLineUnlessRecursing ==
    listOut # Idle =>
        LET out == listOut.out
            n   == Len(out)
        IN  /\ out[n] = "::"
            /\ listIn.nest = 2 => out[n - 1] = "\n" /\ out[n - 2] = "]"
            /\ listIn.nest > 2 => out[n - 1] = "]" /\ out[n - 2] = "\n"

\* [[[a]]] with two elements at each level
C8_Witness ==
    /\ listOut # Idle
    /\ listIn.nest = 3
    /\ listIn.lens = <<2, 2>>
    /\ listOut.out[Len(listOut.out) - 1] = "]"

(***************************************************************************)
(* Properties of the evaluator                                             *)
(***************************************************************************)
RECURSIVE Evaluated(_)
RECURSIVE FoldCalls(_, _, _)
RECURSIVE EachEvaluated(_, _)

\* call(...call(call(acc, run(a_i)), run(a_i+1))..., run(a_n))
FoldCalls(acc, args, i) ==
    IF i > Len(args) THEN acc
    ELSE FoldCalls(<<"valueCall", acc, Evaluated(args[i])>>, args, i + 1)

EachEvaluated(nodes, i) ==
    IF i > Len(nodes) THEN <<>>
    ELSE <<Evaluated(nodes[i])>> \o EachEvaluated(nodes, i + 1)

\* the value of a node
Evaluated(node) ==
    IF node.kind = "astFnApp" THEN FoldCalls(Evaluated(node.l[1]), node.children, 1)
    ELSE IF node.kind = "astListLit"
      THEN <<"Vector", EachEvaluated(node.children, 1)>>
    ELSE IF node.kind = "astStrLit" THEN <<"File", node.name>>
    ELSE IF node.kind = "astSymbolLit" /\ node.name = "size"
      THEN <<"Fn", "impl_size__">>
    ELSE <<"Invalid">>

RECURSIVE Order(_, _)
RECURSIVE OrderOfArgs(_, _, _, _)

\* the children from the i-th on, each evaluated and, under an application,
\* followed by its one call
OrderOfArgs(node, path, i, calls) ==
    IF i > Len(node.children) THEN <<>>
    ELSE Order(node.children[i], path \o <<i>>)
         \o (IF calls THEN << <<"valueCall", path, i - 1>> >> ELSE <<>>)
         \o OrderOfArgs(node, path, i + 1, calls)

\* the order in which evaluating node enters run and calls
Order(node, path) ==
    << <<"run", path>> >>
    \o (IF node.kind = "astFnApp"
        THEN Order(node.l[1], path \o <<0>>) \o OrderOfArgs(node, path, 1, TRUE)
        ELSE IF node.kind = "astListLit" THEN OrderOfArgs(node, path, 1, FALSE)
        ELSE <<>>)

IsPrefix(s, t) == Len(s) <= Len(t) /\ s = SubSeq(t, 1, Len(s))

RunDone == ast # Idle /\ stack = <<>> /\ returned # <<>>

\* C9: evaluating FnApp(f, a1..an) evaluates f first, then a1..an in source
\* order with call invoked exactly once per argument on the running result;
\* with no arguments the result is run(f) and call is never invoked; the
\* AST is not modified.
C9_FnAppLeftFold ==
    ast # Idle =>
        /\ ast = astAtEntry
        /\ IsPrefix(events, Order(ast, <<>>))
        /\ RunDone =>
              /\ events = Order(ast, <<>>)
              /\ returned = FoldCalls(Evaluated(ast.l[1]), ast.children, 1)
              /\ Cardinality({k \in 1..Len(events) :
                     events[k][1] = "valueCall" /\ events[k][2] = <<>>})
                   = Len(ast.children)
              /\ ast.children = <<>> => returned = Evaluated(ast.l[1])

\* size applied to two arguments, the first itself an application
C9_Witness ==
    /\ RunDone
    /\ Len(ast.children) = 2
    /\ ast.children[1].kind = "astFnApp"
    /\ returned[1] = "valueCall"
    /\ returned[2][1] = "valueCall"

====
